---- MODULE Spec2Model ----
(***************************************************************************)
(* Little Lemon menu: the catalog load (initializeApp), the grouping       *)
(* (getSectionListData), the search / category filter (filterData) and the *)
(* category toggle (toggleCategory) of src/App.tsx.                        *)
(*                                                                         *)
(* Strings the program inspects character by character (titles, search     *)
(* text, category names) are sequences of one-character strings; ids and   *)
(* prices are never inspected and stay opaque strings.  *)
(***************************************************************************)
EXTENDS Integers, Sequences, FiniteSets, TLC

\* ------------------------------------------------------------------ bounds
MaxItems == 3      \* longest item list handed to a pure function
MaxEvents == 2     \* user events (typing, category presses) in one run

\* --------------------------------------------------------------- data model
MenuItem(i, t, p, c) == [id |-> i, title |-> t, price |-> p, category |-> c]

Appetizers == <<"A", "p", "p", "e", "t", "i", "z", "e", "r", "s">>
Salads == <<"S", "a", "l", "a", "d", "s">>
Beverages == <<"B", "e", "v", "e", "r", "a", "g", "e", "s">>

MENU_ITEMS ==
  << MenuItem("1", <<"S", "p", "i", "n", "a", "c", "h", " ", "A", "r", "t", "i", "c", "h", "o", "k", "e", " ", "D", "i", "p">>, "10.99", Appetizers),
     MenuItem("2", <<"H", "u", "m", "m", "u", "s">>, "8.99", Appetizers),
     MenuItem("3", <<"F", "r", "i", "e", "d", " ", "C", "a", "l", "a", "m", "a", "r", "i", " ", "R", "i", "n", "g", "s">>, "12.99", Appetizers),
     MenuItem("4", <<"F", "r", "i", "e", "d", " ", "M", "u", "s", "h", "r", "o", "o", "m">>, "9.99", Appetizers),
     MenuItem("5", <<"G", "r", "e", "e", "k", " ", "S", "a", "l", "a", "d">>, "9.99", Salads),
     MenuItem("6", <<"C", "a", "e", "s", "a", "r", " ", "S", "a", "l", "a", "d">>, "8.99", Salads),
     MenuItem("7", <<"T", "u", "n", "a", " ", "S", "a", "l", "a", "d">>, "11.99", Salads),
     MenuItem("8", <<"G", "r", "i", "l", "l", "e", "d", " ", "C", "h", "i", "c", "k", "e", "n", " ", "S", "a", "l", "a", "d">>, "12.99", Salads),
     MenuItem("9", <<"W", "a", "t", "e", "r">>, "1.99", Beverages),
     MenuItem("10", <<"C", "o", "k", "e">>, "2.99", Beverages),
     MenuItem("11", <<"B", "e", "e", "r">>, "5.99", Beverages),
     MenuItem("12", <<"I", "c", "e", " ", "T", "e", "a">>, "3.99", Beverages) >>

Range(s) == {s[i] : i \in DOMAIN s}

\* ---------------------------------------------------- String.toLowerCase()
UpperCaseLetters == <<"A", "B", "C", "D", "E", "F", "G", "H", "I", "J", "K", "L", "M", "N", "O", "P", "Q", "R", "S", "T", "U", "V", "W", "X", "Y", "Z">>
LowerCaseLetters == <<"a", "b", "c", "d", "e", "f", "g", "h", "i", "j", "k", "l", "m", "n", "o", "p", "q", "r", "s", "t", "u", "v", "w", "x", "y", "z">>

\* The lower-case letter of each upper-case letter.
LowerCaseOf ==
  [c \in Range(UpperCaseLetters) |->
     LowerCaseLetters[CHOOSE i \in DOMAIN UpperCaseLetters : UpperCaseLetters[i] = c]]

toLowerCaseChar(c) == IF c \in DOMAIN LowerCaseOf THEN LowerCaseOf[c] ELSE c

RECURSIVE toLowerCase(_)
toLowerCase(s) ==
  IF s = <<>> THEN <<>> ELSE <<toLowerCaseChar(Head(s))>> \o toLowerCase(Tail(s))

\* ------------------------------------------- String.includes(searchString)
\* Left-to-right scan for the first position at which t occurs in s.
RECURSIVE indexOf(_, _, _)
indexOf(s, t, from) ==
  IF from + Len(t) - 1 > Len(s) THEN 0
  ELSE IF SubSeq(s, from, from + Len(t) - 1) = t THEN from
  ELSE indexOf(s, t, from + 1)

includes(s, t) == indexOf(s, t, 1) # 0

\* ------------------------------------------- lookups on a plain JS object
\* A plain object inherits these properties from Object.prototype: obj[k]
\* for such a k that is not an own key is a function (for __proto__, the
\* prototype object), which is truthy and has no push method.
ConstructorName == <<"c", "o", "n", "s", "t", "r", "u", "c", "t", "o", "r">>

ObjectPrototypeNames ==
  { ConstructorName,
    <<"h", "a", "s", "O", "w", "n", "P", "r", "o", "p", "e", "r", "t", "y">>,
    <<"i", "s", "P", "r", "o", "t", "o", "t", "y", "p", "e", "O", "f">>,
    <<"p", "r", "o", "p", "e", "r", "t", "y", "I", "s", "E", "n", "u", "m", "e", "r", "a", "b", "l", "e">>,
    <<"t", "o", "L", "o", "c", "a", "l", "e", "S", "t", "r", "i", "n", "g">>,
    <<"t", "o", "S", "t", "r", "i", "n", "g">>,
    <<"v", "a", "l", "u", "e", "O", "f">>,
    <<"_", "_", "p", "r", "o", "t", "o", "_", "_">>,
    <<"_", "_", "d", "e", "f", "i", "n", "e", "G", "e", "t", "t", "e", "r", "_", "_">>,
    <<"_", "_", "d", "e", "f", "i", "n", "e", "S", "e", "t", "t", "e", "r", "_", "_">>,
    <<"_", "_", "l", "o", "o", "k", "u", "p", "G", "e", "t", "t", "e", "r", "_", "_">>,
    <<"_", "_", "l", "o", "o", "k", "u", "p", "S", "e", "t", "t", "e", "r", "_", "_">> }

InheritedLookup(k) == k \in ObjectPrototypeNames

\* ------------------------------------------ property order of a JS object
\* Object.entries lists the keys that are canonical array indices first, in
\* ascending numeric order, then the other string keys in insertion order.
Digits == <<"0", "1", "2", "3", "4", "5", "6", "7", "8", "9">>
IsDigit(c) == \E i \in DOMAIN Digits : Digits[i] = c
DigitValue(c) == (CHOOSE i \in DOMAIN Digits : Digits[i] = c) - 1

\* The largest array index, 2^32 - 2, as its decimal digits.
MaxArrayIndexDigits == <<"4", "2", "9", "4", "9", "6", "7", "2", "9", "4">>

\* a < b for canonical decimal numerals: shorter is smaller, equal lengths
\* compare digit by digit from the left.
NumLess(a, b) ==
  \/ Len(a) < Len(b)
  \/ /\ Len(a) = Len(b)
     /\ \E i \in DOMAIN a :
          /\ DigitValue(a[i]) < DigitValue(b[i])
          /\ \A j \in 1..(i - 1) : a[j] = b[j]

IsArrayIndex(k) ==
  /\ k # <<>>
  /\ \A i \in DOMAIN k : IsDigit(k[i])
  /\ (Len(k) = 1 \/ k[1] # "0")
  /\ ~NumLess(MaxArrayIndexDigits, k)

RECURSIVE SortByIndex(_)
SortByIndex(es) ==
  IF es = <<>> THEN <<>>
  ELSE LET m == CHOOSE i \in DOMAIN es :
                  \A j \in DOMAIN es : ~NumLess(es[j].key, es[i].key)
       IN <<es[m]>> \o SortByIndex(SubSeq(es, 1, m - 1) \o SubSeq(es, m + 1, Len(es)))

IsIndexEntry(e) == IsArrayIndex(e.key)
IsNameEntry(e) == ~IsArrayIndex(e.key)

ObjectEntries(obj) ==
  SortByIndex(SelectSeq(obj, IsIndexEntry)) \o SelectSeq(obj, IsNameEntry)

\* ------------------------------------------------------ getSectionListData
\* The accumulator object is the sequence of its own properties in insertion
\* order, each a category key with the array of items pushed so far.
HasKey(acc, k) == \E i \in DOMAIN acc : acc[i].key = k

groupStep(acc, item) ==
  LET acc1 == IF ~HasKey(acc, item.category)
              THEN Append(acc, [key |-> item.category, items |-> <<>>])
              ELSE acc
      i == CHOOSE j \in DOMAIN acc1 : acc1[j].key = item.category
  IN [acc1 EXCEPT ![i].items = Append(@, item)]

RECURSIVE reduce(_, _)
reduce(acc, d) ==
  IF d = <<>> THEN acc ELSE reduce(groupStep(acc, Head(d)), Tail(d))

RECURSIVE mapEntries(_)
mapEntries(entries) ==
  IF entries = <<>> THEN <<>>
  ELSE <<[title |-> Head(entries).key, data |-> Head(entries).items]>>
         \o mapEntries(Tail(entries))

\* acc[item.category] of an inherited name is truthy, so no array is created
\* for it (line 68) and the push on line 73 throws a TypeError.
getSectionListDataThrows(d) == \E i \in DOMAIN d : InheritedLookup(d[i].category)

\* The sections returned when no push throws.
getSectionListData(d) == mapEntries(ObjectEntries(reduce(<<>>, d)))

\* ------------------------------------------------- filterData's predicate
\* selectedCategories[item.category] is the own entry when there is one;
\* otherwise it is the inherited property when the name has one, and
\* undefined, hence falsy, for any other name.
categoryIsSelected(sel, c) == IF c \in DOMAIN sel THEN sel[c] ELSE InheritedLookup(c)

matchesFilter(item, text, sel) ==
  /\ includes(toLowerCase(item.title), toLowerCase(text))
  /\ categoryIsSelected(sel, item.category)

RECURSIVE filterItems(_, _, _)
filterItems(allItems, text, sel) ==
  IF allItems = <<>> THEN <<>>
  ELSE (IF matchesFilter(Head(allItems), text, sel) THEN <<Head(allItems)>> ELSE <<>>)
         \o filterItems(Tail(allItems), text, sel)

filteredThrows(allItems, text, sel) ==
  getSectionListDataThrows(filterItems(allItems, text, sel))

\* Variant: the rows are grouped first and each section filtered in place.
RECURSIVE filterWithinSections(_, _, _)
filterWithinSections(sections, text, sel) ==
  IF sections = <<>> THEN <<>>
  ELSE <<[title |-> Head(sections).title,
          data |-> filterItems(Head(sections).data, text, sel)]>>
         \o filterWithinSections(Tail(sections), text, sel)

filteredSectionsKeepEmpty(allItems, text, sel) ==
  filterWithinSections(getSectionListData(allItems), text, sel)

filteredSections(allItems, text, sel) ==
  getSectionListData(filterItems(allItems, text, sel))

\* ------------------------------------------------------ selection helpers
\* [...new Set(items.map(item => item.category))]: first-seen order.
\* Variant: the categories in the key order of the grouped object.
RECURSIVE sectionTitles(_)
sectionTitles(sections) ==
  IF sections = <<>> THEN <<>>
  ELSE <<Head(sections).title>> \o sectionTitles(Tail(sections))

uniqueCategoriesKeyOrder(its) == sectionTitles(getSectionListData(its))

RECURSIVE uniqueCategories(_)
uniqueCategories(its) ==
  IF its = <<>> THEN <<>>
  ELSE LET rest == uniqueCategories(SubSeq(its, 1, Len(its) - 1))
           c == its[Len(its)].category
       IN IF c \in Range(rest) THEN rest ELSE Append(rest, c)

initialCategories(cats) == [c \in Range(cats) |-> TRUE]

\* { ...prev, [category]: !prev[category] }
\* Variant: a deselected category is removed from the map.
toggleCategoryDropKey(prev, category) ==
  IF categoryIsSelected(prev, category)
  THEN [k \in (DOMAIN prev) \ {category} |-> prev[k]]
  ELSE [k \in (DOMAIN prev) \cup {category} |-> IF k = category THEN TRUE ELSE prev[k]]

\* Variant: the press inverts every entry.
toggleCategoryFlipAll(prev, category) ==
  [k \in (DOMAIN prev) \cup {category} |-> ~categoryIsSelected(prev, k)]

toggleCategory(prev, category) ==
  [k \in (DOMAIN prev) \cup {category} |->
     IF k = category THEN ~categoryIsSelected(prev, category) ELSE prev[k]]

\* ------------------------------------------------------------- input sets
Numbered10 == <<"1", "0">>
Numbered2 == <<"2">>

Hummus == MENU_ITEMS[2]
GreekSalad == MENU_ITEMS[5]
CaesarSalad == MENU_ITEMS[6]
Water == MENU_ITEMS[9]
Soda == MenuItem("13", <<"S", "o", "d", "a">>, "2.49", Numbered10)
Salsa == MenuItem("14", <<"S", "a", "l", "s", "a">>, "4.99", Numbered2)
Samosa == MenuItem("15", <<"S", "a", "m", "o", "s", "a">>, "6.49", ConstructorName)

ScenarioCatalog == <<Hummus, GreekSalad, Water>>
NumberedCatalog == <<Soda, Salsa>>
InheritedCatalog == <<Water, Samosa>>

\* What a previous run may have left in the store, what the remote source
\* may answer, what the user may type.
StoreContents == {<<>>, <<Water, CaesarSalad>>}
RemoteCatalogs == {ScenarioCatalog, NumberedCatalog, InheritedCatalog}
SearchTexts == {<<>>, <<"s", "a">>, <<"W">>}

ItemUniverse == {Hummus, GreekSalad, CaesarSalad, Water, Soda, Salsa, Samosa}
CategoryUniverse == {Appetizers, Salads, Beverages, Numbered2}
TextUniverse == {<<>>, <<"s", "a">>, <<"S", "A", "L">>, <<"e", "r">>}

ItemLists(n) ==
  UNION {{q \in [1..k -> ItemUniverse] : \A i, j \in 1..k : q[i] = q[j] => i = j}
           : k \in 0..n}

SelectionMaps == UNION {[ks -> BOOLEAN] : ks \in SUBSET CategoryUniverse}

\* ------------------------------------------------------------------ state
VARIABLES
  ipc,                 \* where initializeApp is suspended
  menuItems,           \* initializeApp's local: the fetched items
  store,               \* rows of the persistent store
  logged,              \* console.error calls so far
  providerCalls,       \* calls made so far to each ./database and ./api function
  searchText, data, filteredData, selectedCategories, categories, isLoading,
  inflight,            \* filterData calls awaiting getMenuItems
  nEvents,             \* reactive triggers so far
  call, ret            \* a function applied on its own: arguments, result

appVars == <<ipc, menuItems, store, logged, providerCalls, searchText, data,
             filteredData, selectedCategories, categories, isLoading, inflight,
             nEvents>>
vars == <<ipc, menuItems, store, logged, providerCalls, searchText, data,
          filteredData, selectedCategories, categories, isLoading, inflight,
          nEvents, call, ret>>

NoSelection == [c \in {} |-> TRUE]

ApiErrorMsg == "Error fetching from API:"
InitErrorMsg == "Error initializing app:"
FilterErrorMsg == "Error filtering data:"

Providers == {"createTable", "fetchData", "saveMenuItems", "getMenuItems"}
called(name) == [providerCalls EXCEPT ![name] = @ + 1]

NoCall == [fn |-> "none", items |-> <<>>, text |-> <<>>, sel |-> NoSelection,
           category |-> <<>>]
NoRet == [done |-> FALSE, threw |-> FALSE, sections |-> <<>>, sel |-> NoSelection]

\* The state after the first render: both effects have run, initializeApp is
\* suspended at await createTable() and the filter effect returned at once
\* because data is empty.
AppInit ==
  /\ ipc = "createTable"
  /\ menuItems = <<>>
  /\ store \in StoreContents
  /\ logged = {}
  /\ providerCalls = [n \in Providers |-> IF n = "createTable" THEN 1 ELSE 0]
  /\ searchText = <<>>
  /\ data = <<>>
  /\ filteredData = <<>>
  /\ selectedCategories = NoSelection
  /\ categories = <<>>
  /\ isLoading = TRUE
  /\ inflight = {}
  /\ nEvents = 0

Init == AppInit /\ call = NoCall /\ ret = NoRet

\* Variant: the effect starts a filterData call whatever data holds.
filterEffectNoGuard(text, sel, d, n) ==
  /\ inflight' = inflight \cup {[seq |-> n, searchText |-> text,
                                 selectedCategories |-> sel]}
  /\ providerCalls' = called("getMenuItems")

\* ------------------------------------------------- the filter effect (179)
\* Runs after a render in which searchText, selectedCategories or data
\* changed; returns at once while data is empty, otherwise starts a
\* filterData call that closes over the rendered values and calls
\* getMenuItems.
filterEffect(text, sel, d, n) ==
  IF d = <<>>
  THEN UNCHANGED <<inflight, providerCalls>>
  ELSE /\ inflight' = inflight \cup {[seq |-> n, searchText |-> text,
                                      selectedCategories |-> sel]}
       /\ providerCalls' = called("getMenuItems")

\* ------------------------------------------ ./database and ./api providers
\* Every way a provider call may settle: error is "" when it returned.
createTableOutcomes == {"", "InitError"}

fetchDataOutcomes ==
  {[error |-> "", rows |-> r] : r \in RemoteCatalogs}
    \cup {[error |-> "FetchError", rows |-> <<>>]}

saveMenuItemsOutcomes(st, rows) ==
  {[error |-> "", store |-> rows], [error |-> "PersistError", store |-> st]}

getMenuItemsOutcomes(st) ==
  {[error |-> "", rows |-> st], [error |-> "PersistError", rows |-> <<>>]}

\* ------------------------------------------------------- initializeApp
\* Lines 135-151 and 156-169 with the finally block: publish its.
publish(its) ==
  /\ categories' = uniqueCategories(its)
  /\ selectedCategories' = initialCategories(uniqueCategories(its))
  /\ data' = getSectionListData(its)
  /\ filteredData' = getSectionListData(its)
  /\ isLoading' = FALSE
  /\ ipc' = "done"
  /\ filterEffect(searchText, initialCategories(uniqueCategories(its)),
                  getSectionListData(its), nEvents)

catchInitializeApp(error) ==
  /\ logged' = logged \cup {<<InitErrorMsg, error>>}
  /\ publish(MENU_ITEMS)

createTable ==
  /\ ipc = "createTable"
  /\ \E r \in createTableOutcomes :
       IF r = ""
       THEN /\ ipc' = "fetchData"
            /\ providerCalls' = called("fetchData")
            /\ UNCHANGED <<logged, data, filteredData, selectedCategories,
                           categories, isLoading, inflight>>
       ELSE catchInitializeApp(r)
  /\ UNCHANGED <<menuItems, store, searchText, nEvents, call, ret>>

\* Variant: a failed fetch publishes the bundled list without reading the store.
fetchDataSkipRead ==
  /\ ipc = "fetchData"
  /\ \E r \in fetchDataOutcomes :
       IF r.error = ""
       THEN /\ menuItems' = r.rows
            /\ ipc' = "saveMenuItems"
            /\ providerCalls' = called("saveMenuItems")
            /\ UNCHANGED <<logged, data, filteredData, selectedCategories,
                           categories, isLoading, inflight>>
       ELSE /\ logged' = logged \cup {<<ApiErrorMsg, r.error>>}
            /\ publish(MENU_ITEMS)
            /\ UNCHANGED menuItems
  /\ UNCHANGED <<store, searchText, nEvents, call, ret>>

fetchData ==
  /\ ipc = "fetchData"
  /\ \E r \in fetchDataOutcomes :
       IF r.error = ""
       THEN /\ menuItems' = r.rows
            /\ ipc' = "saveMenuItems"
            /\ providerCalls' = called("saveMenuItems")
            /\ UNCHANGED <<logged, data, filteredData, selectedCategories,
                           categories, isLoading, inflight>>
       ELSE /\ logged' = logged \cup {<<ApiErrorMsg, r.error>>}
            /\ ipc' = "getMenuItems"
            /\ providerCalls' = called("getMenuItems")
            /\ UNCHANGED <<menuItems, data, filteredData, selectedCategories,
                           categories, isLoading, inflight>>
  /\ UNCHANGED <<store, searchText, nEvents, call, ret>>

saveMenuItems ==
  /\ ipc = "saveMenuItems"
  /\ \E r \in saveMenuItemsOutcomes(store, menuItems) :
       /\ store' = r.store
       /\ logged' = IF r.error = "" THEN logged
                    ELSE logged \cup {<<ApiErrorMsg, r.error>>}
  /\ ipc' = "getMenuItems"
  /\ providerCalls' = called("getMenuItems")
  /\ UNCHANGED <<menuItems, searchText, data, filteredData, selectedCategories,
                 categories, isLoading, inflight, nEvents, call, ret>>

\* Variant: no catch and no finally around the read; a throw ends
\* initializeApp with nothing published.
getMenuItemsUncaught ==
  /\ ipc = "getMenuItems"
  /\ \E r \in getMenuItemsOutcomes(store) :
       IF r.error # "" \/ getSectionListDataThrows(r.rows)
       THEN /\ ipc' = "failed"
            /\ UNCHANGED <<logged, providerCalls, data, filteredData,
                           selectedCategories, categories, isLoading, inflight>>
       ELSE publish(r.rows) /\ UNCHANGED logged
  /\ UNCHANGED <<menuItems, store, searchText, nEvents, call, ret>>

\* The rows are published unless grouping them throws on line 149, after
\* setCategories and setSelectedCategories; the catch block then sets all
\* four again from MENU_ITEMS.
getMenuItems ==
  /\ ipc = "getMenuItems"
  /\ \E r \in getMenuItemsOutcomes(store) :
       IF r.error # "" THEN catchInitializeApp(r.error)
       ELSE IF getSectionListDataThrows(r.rows) THEN catchInitializeApp("TypeError")
       ELSE publish(r.rows) /\ UNCHANGED logged
  /\ UNCHANGED <<menuItems, store, searchText, nEvents, call, ret>>

\* ------------------------------------------------------------ user events
\* The search bar and the category buttons are rendered only when isLoading
\* is false (line 258); there is one button per entry of categories.
\* Variant: typing selects every category again.
setSearchTextResetSelection(text) ==
  /\ ~isLoading
  /\ nEvents < MaxEvents
  /\ text # searchText
  /\ searchText' = text
  /\ selectedCategories' = initialCategories(categories)
  /\ nEvents' = nEvents + 1
  /\ filterEffect(text, initialCategories(categories), data, nEvents + 1)
  /\ UNCHANGED <<ipc, menuItems, store, logged, data, filteredData,
                 categories, isLoading, call, ret>>

\* Variant: typing fetches the catalog again.
setSearchTextRefetch(text) ==
  /\ ~isLoading
  /\ nEvents < MaxEvents
  /\ text # searchText
  /\ searchText' = text
  /\ nEvents' = nEvents + 1
  /\ inflight' = IF data = <<>> THEN inflight
                 ELSE inflight \cup {[seq |-> nEvents + 1, searchText |-> text,
                                      selectedCategories |-> selectedCategories]}
  /\ providerCalls' = [providerCalls EXCEPT !["fetchData"] = @ + 1,
                                            !["getMenuItems"] = @ + 1]
  /\ UNCHANGED <<ipc, menuItems, store, logged, data, filteredData,
                 selectedCategories, categories, isLoading, call, ret>>

setSearchText(text) ==
  /\ ~isLoading
  /\ nEvents < MaxEvents
  /\ text # searchText
  /\ searchText' = text
  /\ nEvents' = nEvents + 1
  /\ filterEffect(text, selectedCategories, data, nEvents + 1)
  /\ UNCHANGED <<ipc, menuItems, store, logged, data, filteredData,
                 selectedCategories, categories, isLoading, call, ret>>

onPressCategory(category) ==
  /\ ~isLoading
  /\ nEvents < MaxEvents
  /\ selectedCategories' = toggleCategory(selectedCategories, category)
  /\ nEvents' = nEvents + 1
  /\ filterEffect(searchText, toggleCategory(selectedCategories, category), data,
                  nEvents + 1)
  /\ UNCHANGED <<ipc, menuItems, store, logged, searchText, data, filteredData,
                 categories, isLoading, call, ret>>

\* ------------------------------------------------------------- filterData
\* The awaited getMenuItems of one pending call settles.  When it throws, or
\* grouping the filtered rows throws, the catch block filters MENU_ITEMS
\* instead.
\* Variant: the catch block publishes the whole bundled list.
filterDataCatchUnfiltered(f) ==
  /\ f \in inflight
  /\ inflight' = inflight \ {f}
  /\ \E r \in getMenuItemsOutcomes(store) :
       IF r.error = "" /\ ~filteredThrows(r.rows, f.searchText, f.selectedCategories)
       THEN /\ filteredData' = filteredSections(r.rows, f.searchText,
                                                f.selectedCategories)
            /\ UNCHANGED logged
       ELSE /\ logged' = logged \cup
                           {<<FilterErrorMsg, IF r.error = "" THEN "TypeError" ELSE r.error>>}
            /\ filteredData' = getSectionListData(MENU_ITEMS)
  /\ UNCHANGED <<ipc, menuItems, store, providerCalls, searchText, data,
                 selectedCategories, categories, isLoading, nEvents, call, ret>>

\* Variant: a recomputation shows the loading indicator while it publishes.
filterDataBusy(f) ==
  /\ f \in inflight
  /\ inflight' = inflight \ {f}
  /\ filteredData' = filteredSections(MENU_ITEMS, f.searchText, f.selectedCategories)
  /\ isLoading' = TRUE
  /\ UNCHANGED <<ipc, menuItems, store, logged, providerCalls, searchText, data,
                 selectedCategories, categories, nEvents, call, ret>>

filterData(f) ==
  /\ f \in inflight
  /\ inflight' = inflight \ {f}
  /\ \E r \in getMenuItemsOutcomes(store) :
       IF r.error = "" /\ ~filteredThrows(r.rows, f.searchText, f.selectedCategories)
       THEN /\ filteredData' = filteredSections(r.rows, f.searchText,
                                                f.selectedCategories)
            /\ UNCHANGED logged
       ELSE /\ logged' = logged \cup
                           {<<FilterErrorMsg, IF r.error = "" THEN "TypeError" ELSE r.error>>}
            /\ filteredData' = filteredSections(MENU_ITEMS, f.searchText,
                                                f.selectedCategories)
  /\ UNCHANGED <<ipc, menuItems, store, providerCalls, searchText, data,
                 selectedCategories, categories, isLoading, nEvents, call, ret>>

Next ==
  \/ createTable
  \/ fetchData
  \/ saveMenuItems
  \/ getMenuItems
  \/ \E text \in SearchTexts : setSearchText(text)
  \/ \E i \in DOMAIN categories : onPressCategory(categories[i])
  \/ \E f \in inflight : filterData(f)

Spec == Init /\ [][Next]_vars

\* Every provider call awaited by initializeApp settles: it returns or it
\* throws, and initializeApp moves on to its next await or to its end.  Only
\* createTable, fetchData, saveMenuItems and getMenuItems change ipc, so the
\* steps of awaitSettles are exactly their steps.
awaitSettles ==
  /\ ipc \in {"createTable", "fetchData", "saveMenuItems", "getMenuItems"}
  /\ ipc' \in {"fetchData", "saveMenuItems", "getMenuItems", "done"}
  /\ ipc' # ipc

LiveSpec == Spec /\ WF_ipc(awaitSettles)

\* --------------------------------------- the pure functions on their own
GroupCalls == {[NoCall EXCEPT !.fn = "getSectionListData", !.items = its]
                 : its \in ItemLists(MaxItems)}
FilterCalls == {[NoCall EXCEPT !.fn = "filterData", !.items = its, !.text = t, !.sel = sel]
                  : its \in ItemLists(MaxItems), t \in TextUniverse, sel \in SelectionMaps}
ToggleCalls == {[NoCall EXCEPT !.fn = "toggleCategory", !.sel = sel, !.category = c]
                  : sel \in SelectionMaps, c \in CategoryUniverse}

FnInit ==
  /\ AppInit
  /\ store = <<>>
  /\ call \in GroupCalls \cup FilterCalls \cup ToggleCalls
  /\ ret = NoRet

\* A call that throws returns no sections.
applyGetSectionListData ==
  /\ call.fn = "getSectionListData" /\ ~ret.done
  /\ ret' = IF getSectionListDataThrows(call.items)
            THEN [NoRet EXCEPT !.done = TRUE, !.threw = TRUE]
            ELSE [NoRet EXCEPT !.done = TRUE, !.sections = getSectionListData(call.items)]
  /\ UNCHANGED <<appVars, call>>

\* Lines 190-216 on the rows call.items: the filter and the grouping of what
\* passed, or, when that grouping throws, the same on MENU_ITEMS.
applyFilter ==
  /\ call.fn = "filterData" /\ ~ret.done
  /\ ret' = IF filteredThrows(call.items, call.text, call.sel)
            THEN [NoRet EXCEPT !.done = TRUE, !.threw = TRUE,
                               !.sections = filteredSections(MENU_ITEMS, call.text, call.sel)]
            ELSE [NoRet EXCEPT !.done = TRUE,
                               !.sections = filteredSections(call.items, call.text, call.sel)]
  /\ UNCHANGED <<appVars, call>>

applyToggleCategory ==
  /\ call.fn = "toggleCategory" /\ ~ret.done
  /\ ret' = [NoRet EXCEPT !.done = TRUE, !.sel = toggleCategory(call.sel, call.category)]
  /\ UNCHANGED <<appVars, call>>

FnNext == applyGetSectionListData \/ applyFilter \/ applyToggleCategory

FnSpec == FnInit /\ [][FnNext]_vars

\* ================================================================ claims
SameLetter(a, b) == toLowerCaseChar(a) = toLowerCaseChar(b)

\* text occurs in title at some offset, letters compared without case.
TitleContains(title, text) ==
  \E k \in 0..(Len(title) - Len(text)) :
    \A j \in 1..Len(text) : SameLetter(title[k + j], text[j])

Appears(item, sections) ==
  \E i \in DOMAIN sections : \E j \in DOMAIN sections[i].data :
    sections[i].data[j] = item

CategoriesOf(its) == {its[i].category : i \in DOMAIN its}
FirstIndex(its, c) == CHOOSE i \in DOMAIN its :
                        /\ its[i].category = c
                        /\ \A j \in 1..(i - 1) : its[j].category # c
Position(its, item) == CHOOSE i \in DOMAIN its : its[i] = item

RECURSIVE Flatten(_)
Flatten(sections) ==
  IF sections = <<>> THEN <<>> ELSE Head(sections).data \o Flatten(Tail(sections))

InitFailed ==
  \E e \in {"InitError", "PersistError", "TypeError"} : <<InitErrorMsg, e>> \in logged
ApiFailed == \E e \in {"FetchError", "PersistError"} : <<ApiErrorMsg, e>> \in logged
\* The item list initializeApp published: the rows it read, or MENU_ITEMS
\* from its catch block.  The store is not written after the read.
LoadedItems == IF InitFailed THEN MENU_ITEMS ELSE store
AllSelected(cs) == [c \in cs |-> TRUE]

\* C1: an item is in the sections a filter recomputation produces exactly
\* when it is in the catalog read, its title contains the search text without
\* regard to case (the empty text is contained in every title) and the
\* selection has a true entry for its category; an item whose category has no
\* entry is never in them.
C1_FilterCorrect ==
  (call.fn = "filterData" /\ ret.done) =>
    \A item \in ItemUniverse :
      Appears(item, ret.sections) <=>
        /\ item \in Range(call.items)
        /\ TitleContains(item.title, call.text)
        /\ item.category \in DOMAIN call.sel
        /\ call.sel[item.category] = TRUE

\* C2: when the initial load completes the published catalog is never empty,
\* and when the remote fetch failed and the store is empty or its read threw,
\* the published catalog is the grouping of MENU_ITEMS.
C2_NeverEmpty ==
  ipc = "done" =>
    /\ data # <<>>
    /\ (<<ApiErrorMsg, "FetchError">> \in logged /\ (store = <<>> \/ InitFailed))
         => data = getSectionListData(MENU_ITEMS)

\* C3: once no filter recomputation is in flight, the FilteredView is the one
\* computed from the latest search text and selection (over the rows read, or
\* over MENU_ITEMS when the read threw): no recomputation of an earlier event
\* publishes after that of a later event.
C3_NoStaleView ==
  (ipc = "done" /\ inflight = {} /\ data # <<>>) =>
    \/ filteredData = filteredSections(store, searchText, selectedCategories)
    \/ filteredData = filteredSections(MENU_ITEMS, searchText, selectedCategories)

\* C4: getSectionListData returns one section per category, in the order in
\* which the categories first occur in the input, each holding the items of
\* its category in their input order.
C4_OrderPreserving ==
  (call.fn = "getSectionListData" /\ ret.done) =>
    LET its == call.items
        out == ret.sections
    IN /\ {out[i].title : i \in DOMAIN out} = CategoriesOf(its)
       /\ \A i, j \in DOMAIN out :
            i < j => FirstIndex(its, out[i].title) < FirstIndex(its, out[j].title)
       /\ \A i \in DOMAIN out :
            /\ Range(out[i].data) = {x \in Range(its) : x.category = out[i].title}
            /\ \A m, n \in DOMAIN out[i].data :
                 m < n => Position(its, out[i].data[m]) < Position(its, out[i].data[n])

\* C5: after a failed remote fetch or a failed persist the load goes on to
\* read the store, and unless that read itself throws it publishes the
\* grouping of the rows read and clears the busy flag.
C5_ApiFailureAbsorbed ==
  ApiFailed =>
    /\ ipc \in {"getMenuItems", "done"}
    /\ (ipc = "done" /\ ~InitFailed) =>
         /\ data = getSectionListData(store)
         /\ ~isLoading

C5_Witness ==
  /\ ipc = "done"
  /\ <<ApiErrorMsg, "FetchError">> \in logged
  /\ ~InitFailed
  /\ store # <<>>
  /\ data = getSectionListData(store)

\* C6: whenever no filter recomputation is in flight after the initial load,
\* the FilteredView is the filter-then-group of the loaded catalog under the
\* current search text and selection, and each of its items is an item of
\* the loaded catalog.
C6_ViewOfLoadedCatalog ==
  (ipc = "done" /\ inflight = {}) =>
    /\ filteredData = filteredSections(Flatten(data), searchText, selectedCategories)
    /\ Range(Flatten(filteredData)) \subseteq Range(Flatten(data))

\* C7: right after the initial load, before any user event, the selection has
\* exactly the distinct categories of the loaded item list as keys, all true,
\* and the category list holds each of them once, in first-seen order.
C7_SelectionComplete ==
  (ipc = "done" /\ nEvents = 0) =>
    /\ DOMAIN selectedCategories = CategoriesOf(LoadedItems)
    /\ \A c \in DOMAIN selectedCategories : selectedCategories[c] = TRUE
    /\ Cardinality(DOMAIN selectedCategories) = Cardinality(CategoriesOf(LoadedItems))
    /\ Len(categories) = Cardinality(CategoriesOf(LoadedItems))
    /\ Range(categories) = CategoriesOf(LoadedItems)
    /\ \A i, j \in DOMAIN categories :
         i < j => FirstIndex(LoadedItems, categories[i])
                    < FirstIndex(LoadedItems, categories[j])

C7_Witness ==
  /\ ipc = "done" /\ nEvents = 0
  /\ ~InitFailed
  /\ LoadedItems = NumberedCatalog
  /\ categories = <<Numbered10, Numbered2>>

\* C8: in every state after the initial load the keys of the selection are
\* exactly the categories of the loaded catalog.
C8_SelectionKeys ==
  ipc = "done" => DOMAIN selectedCategories = {data[i].title : i \in DOMAIN data}

C8_Witness ==
  /\ ipc = "done"
  /\ searchText # <<>>
  /\ \E c \in DOMAIN selectedCategories : ~selectedCategories[c]

\* C9: toggling a category that has an entry yields a map with the same key
\* set whose value at that category is the negation of the old one and whose
\* value at every other key is the old one.
C9_SingleKeyFlip ==
  (call.fn = "toggleCategory" /\ ret.done /\ call.category \in DOMAIN call.sel) =>
    /\ DOMAIN ret.sel = DOMAIN call.sel
    /\ ret.sel[call.category] = ~call.sel[call.category]
    /\ \A k \in DOMAIN call.sel : k # call.category => ret.sel[k] = call.sel[k]

C9_Witness ==
  /\ call.fn = "toggleCategory" /\ ret.done
  /\ call.category \in DOMAIN call.sel
  /\ call.sel[call.category]
  /\ \E k \in DOMAIN call.sel : k # call.category /\ ~call.sel[k]
  /\ ~ret.sel[call.category]

\* C10: toggling a category that has no entry leaves the selection as it
\* was, with no key added.
C10_ToggleAbsentNoOp ==
  (call.fn = "toggleCategory" /\ ret.done /\ call.category \notin DOMAIN call.sel) =>
    ret.sel = call.sel

\* C11: the busy flag is true exactly while initializeApp has not completed,
\* and no step taken once it is false (typing, a category press, a filter
\* recomputation or its error fallback) sets it back to true.
C11_BusyOnlyDuringLoad ==
  [][/\ isLoading' <=> (ipc' # "done")
     /\ ~isLoading => ~isLoading']_vars

C11_Witness ==
  /\ ~isLoading
  /\ nEvents > 0
  /\ inflight = {}
  /\ <<FilterErrorMsg, "PersistError">> \in logged

\* C12: the remote fetch is attempted at most once; once the load has
\* completed no step calls createTable, fetchData or saveMenuItems or changes
\* the store, and a step calls getMenuItems at most once.
C12_SingleFetch ==
  [][/\ providerCalls'["fetchData"] <= 1
     /\ ipc = "done" =>
          /\ providerCalls'["createTable"] = providerCalls["createTable"]
          /\ providerCalls'["fetchData"] = providerCalls["fetchData"]
          /\ providerCalls'["saveMenuItems"] = providerCalls["saveMenuItems"]
          /\ providerCalls'["getMenuItems"] <= providerCalls["getMenuItems"] + 1
          /\ store' = store]_vars

C12_Witness ==
  /\ ipc = "done"
  /\ providerCalls["fetchData"] = 1
  /\ providerCalls["saveMenuItems"] = 1
  /\ providerCalls["getMenuItems"] = 3
  /\ searchText # <<>>

Passes(item, text, sel) ==
  /\ TitleContains(item.title, text)
  /\ item.category \in DOMAIN sel
  /\ sel[item.category] = TRUE

TitleIndex(sections, c) == CHOOSE i \in DOMAIN sections : sections[i].title = c

C14_TotalIdempotent ==
  (call.fn = "getSectionListData" /\ ret.done) =>
    /\ ~ret.threw
    /\ call.items = <<>> => ret.sections = <<>>
    /\ ~getSectionListDataThrows(Flatten(ret.sections))
    /\ getSectionListData(Flatten(ret.sections)) = ret.sections

SectionTitles(sections) == {sections[i].title : i \in DOMAIN sections}

\* C15: nothing is published before the initial load completes, and from its
\* completion until the first user event the FilteredView equals the
\* unfiltered grouped catalog, with the search text empty and every category
\* of the catalog listed and selected.
C15_InitialViewIsCatalog ==
  /\ ipc # "done" =>
       /\ data = <<>> /\ filteredData = <<>>
       /\ categories = <<>> /\ selectedCategories = NoSelection
  /\ (ipc = "done" /\ nEvents = 0) =>
       /\ filteredData = data
       /\ searchText = <<>>
       /\ Range(categories) = SectionTitles(data)
       /\ selectedCategories = AllSelected(SectionTitles(data))

\* C16: when every provider call settles, the initial load completes: the
\* busy flag eventually becomes false, and the step that completes the load
\* sets catalog, category list, selection and FilteredView from one item
\* list, the rows read or MENU_ITEMS.
C16_LoadTerminates ==
  /\ <>(~isLoading)
  /\ [][(ipc # "done" /\ ipc' = "done") =>
          \E its \in {store', MENU_ITEMS} :
            /\ ~getSectionListDataThrows(its)
            /\ data' = getSectionListData(its)
            /\ filteredData' = getSectionListData(its)
            /\ Range(categories') = CategoriesOf(its)
            /\ Len(categories') = Cardinality(CategoriesOf(its))
            /\ selectedCategories' = AllSelected(CategoriesOf(its))]_vars

C16_Witness ==
  /\ ipc = "done"
  /\ ~isLoading
  /\ <<ApiErrorMsg, "PersistError">> \in logged
  /\ <<InitErrorMsg, "PersistError">> \in logged
  /\ data = getSectionListData(MENU_ITEMS)

\* C17: the step that settles a pending filter recomputation always publishes
\* a FilteredView for the search text and selection the call closed over: that
\* of the rows read, or, whenever it logs an error, that of MENU_ITEMS.
C17_RecomputationPublishes ==
  [][\A f \in inflight :
       f \notin inflight' =>
         \/ /\ logged' = logged
            /\ ~filteredThrows(store, f.searchText, f.selectedCategories)
            /\ filteredData' = filteredSections(store, f.searchText,
                                                f.selectedCategories)
         \/ /\ \E e \in {"PersistError", "TypeError"} :
                 <<FilterErrorMsg, e>> \in logged'
            /\ filteredData' = filteredSections(MENU_ITEMS, f.searchText,
                                                f.selectedCategories)]_vars

C17_Witness ==
  /\ ipc = "done" /\ inflight = {}
  /\ <<FilterErrorMsg, "PersistError">> \in logged
  /\ searchText # <<>>
  /\ filteredData = filteredSections(MENU_ITEMS, searchText, selectedCategories)
  /\ filteredData # filteredSections(store, searchText, selectedCategories)
  /\ filteredData # getSectionListData(MENU_ITEMS)

\* C18: while the loaded catalog is empty, no step starts a filter
\* recomputation or a store read, and the FilteredView stays as it is.
C18_EmptyCatalogNoRecompute ==
  [][(ipc = "done" /\ data = <<>>) =>
       /\ inflight' = inflight
       /\ providerCalls' = providerCalls
       /\ filteredData' = filteredData]_vars

C18_Witness ==
  /\ ipc = "done"
  /\ data = <<>>
  /\ searchText # <<>>
  /\ nEvents > 0
  /\ inflight = {}

\* C19: after the initial load no step changes the unfiltered grouped catalog
\* or the category list; a step that changes the search text leaves the
\* selection as it is, and a step that changes the selection leaves the
\* search text as it is.
C19_Frame ==
  [][ipc = "done" =>
       /\ data' = data
       /\ categories' = categories
       /\ searchText' # searchText => selectedCategories' = selectedCategories
       /\ selectedCategories' # selectedCategories => searchText' = searchText]_vars

C19_Witness ==
  /\ ipc = "done"
  /\ inflight = {}
  /\ nEvents >= 2
  /\ searchText # <<>>
  /\ \E c \in DOMAIN selectedCategories : ~selectedCategories[c]

====
